---- MODULE Spec2Model ----
(***************************************************************************)
(* A model of the streaming subsystem of the ksqlDB client (src/client.go): *)
(* the duplex insertion stream built by Client.InsertsStream (the pipe, the *)
(* target descriptor, the background acknowledgement reader and its two    *)
(* channels, InsertsStreamCloser.Close), the close path of a streaming row  *)
(* reader (queryStreamReadCloser.Close, Client.CloseQuery) and the session  *)
(* bookkeeping (Client.rows, Client.insertsStreamWriters, Client.Close).    *)
(*                                                                         *)
(* SpecIns  follows ONE insertion stream through construction, inserts,     *)
(*          acknowledgements and Close, every goroutine step interleaved.   *)
(* SpecSess follows one session that creates and closes several streams,    *)
(*          each call of the single caller taken as one step.               *)
(***************************************************************************)
EXTENDS Integers, Sequences, FiniteSets, TLC

\* ------------------------------------------------------------------ bounds
\* Lines the remote service writes on one response body.
MaxLines == 2
\* Insert calls on one insertion stream (sequence numbers 0..MaxInserts-1).
MaxInserts == 2
\* Close calls on one stream.
MaxCloses == 2
\* Streams (readers and writers together) one session creates.
MaxStreams == 3
\* Goroutines that call a creating operation on one Client at the same time.
MaxCreators == 3
\* Row frames the remote service writes on one query's response body.
MaxRowFrames == 2

\* The goroutines calling QueryStream or InsertsStream on the one Client, which
\* has no lock (lines 21-26). A stream's handle there is its creator's number.
Creators == 1 .. MaxCreators

\* ------------------------------------------------------------- wire values
None == [kind |-> "none", seq |-> 0]

\* The {target: ...} descriptor, the first unit InsertsStream encodes.
TargetUnit == [kind |-> "target", seq |-> 0]

\* One inserted record, tagged by the sequence number Insert assigned to it.
RowUnit(n) == [kind |-> "row", seq |-> n]

\* Sequence numbers the remote may acknowledge: every one Insert can issue,
\* and one (MaxInserts) that this stream never issues.
AckSeqs == 0 .. MaxInserts

\* A well-formed line {"status": s, "seq": n} of the response body.
AckLine(s, n) == [kind |-> "ack", status |-> s, seq |-> n]

\* A line that is no JSON object (also: the rest of a line another reader of
\* the body has taken the head of).
Garbage == [kind |-> "garbage", status |-> "", seq |-> 0]

Lines == {AckLine("ok", n) : n \in AckSeqs} \cup {Garbage}

\* var ack InsertsStreamAck: the zero value.
ZeroAck == [status |-> "", seq |-> 0]

\* A decode that drops the seq field (as a wrong struct tag on Seq would).
UnmarshalLosesSeq(line) ==
    IF line.kind = "ack"
    THEN [err |-> FALSE, ack |-> [status |-> line.status, seq |-> 0]]
    ELSE [err |-> TRUE, ack |-> ZeroAck]

\* json.Unmarshal(b, &ack) into a zero-valued ack: the error and what ack holds
\* afterwards. Invalid JSON leaves ack untouched.
Unmarshal(line) ==
    IF line.kind = "ack"
    THEN [err |-> FALSE, ack |-> [status |-> line.status, seq |-> line.seq]]
    ELSE [err |-> TRUE, ack |-> ZeroAck]

\* ---------------------------------------------------------------- channels
\* Line 439: ackCh := make(chan InsertsStreamAck), an unbuffered channel.
AckChCap == 0

\* make(chan error, 1)
ErrChCap == 1

\* ch <- v on a Go channel: panics when closed, blocks when the buffer is full.
ChanSend(ch) ==
    IF ch.closed THEN "panic"
    ELSE IF Len(ch.buf) < ErrChCap THEN "ok" ELSE "block"

\* close(ch): panics when ch is closed already.
ChanClose(ch) == IF ch.closed THEN "panic" ELSE "ok"

\* No call has returned yet.
NoCall ==
    [op |-> "none", id |-> 0, ret |-> "nil", already |-> FALSE,
     termOk |-> TRUE, terminated |-> FALSE, released |-> FALSE,
     attemptedRows |-> {}, attemptedWriters |-> {}, events |-> <<>>]

VARIABLES
    \* --- Client.InsertsStream, the constructing call
    isPc,       \* "idle" | "do" (http.Do running) | "wait" (g.Wait) | "returned" | "failed"
    encPc,      \* the errgroup task enc.Encode(&payload): "none" | "writing" | "done" | "err"
    \* --- io.Pipe (pr, pw) and the request body
    pipeW,      \* the unit a blocked pw.Write offers, or None
    prClosed,   \* pr.Close() has been called
    outbound,   \* units the transport has read from pr and sent, in order
    reqEnd,     \* how the request body ended for the transport: "open" | "eof" | "error"
    \* --- the response body res.Body
    wire,       \* lines written by the remote and not read yet
    nEmitted,   \* lines the remote has written so far
    bodyEnd,    \* "open" | "eof" | "err": how the body ends once wire is read
    respClosed, \* number of res.Body.Close() calls
    \* --- the background acknowledgement reader
    rdPc,       \* "none" | "scan" | "senderr" | "closeerr" | "pub" | "senderr2" | "closeerr2" | "done" | "panic"
    rdAck,      \* var ack, the value line 464 publishes
    rdUnknown,  \* rdAck was decoded from a line whose seq was not in ackMap when read
    scanned,    \* lines sc.Scan() has returned, in order
    errCh,      \* [buf, closed]
    ackChClosed,
    \* --- the caller's side of the channels
    acked,      \* acknowledgements received from ackCh, in order
    errsRecv,   \* errors received from errCh
    errSends,   \* completed sends on errCh
    lateAcks,   \* acknowledgements received after a send on errCh
    unknownAcks,\* acknowledgements received whose seq the stream had not issued
    postCloseAcks, \* acknowledgements received after a Close of the stream had returned
    \* --- InsertsStreamWriter
    curr,       \* the next sequence number
    ackMap,     \* the sequence numbers issued (the keys of the correlation table)
    insPc,      \* "idle" | "writing" (Insert blocked in enc.Encode)
    \* --- InsertsStreamCloser.Close
    clPc,       \* "idle" | "drain" | "closeresp"
    closeCalls, \* Close calls begun
    closeRets,  \* what each finished Close returned, in order: "nil" | "err"
    stolen,     \* lines io.Copy took from the body while the reader goroutine was running
    \* --- Client
    rows,                 \* c.rows: the readers registered, by handle
    insertsStreamWriters, \* c.insertsStreamWriters: the writers registered, by handle
    \* --- the streams of one session, by handle (1, 2, ... in creation order)
    readers,    \* each reader's queryStreamReadCloser
    closers,    \* each writer's InsertsStreamCloser
    returnedRows,    \* handles QueryStream has returned to its caller
    returnedWriters, \* handles InsertsStream has returned to its caller
    lastCall,   \* the call that returned last, and what it did
    \* --- creating calls running at once on one Client
    crPc,       \* per calling goroutine: "idle" | "append" | "loaded" | "returned" | "failed"
    crKind,     \* per calling goroutine: "none" | "QueryStream" | "InsertsStream"
    crLocal,    \* per calling goroutine: the slice value its append has read
    \* --- one QueryStreamRows and the response body under it
    qsPc,       \* Client.QueryStream: "idle" | "created" | "failed"
    respBody,   \* frames the remote has written that no Read has taken yet
    bodyEnded,  \* the remote has ended the response body
    sentRows,   \* every row frame the remote has written, in order
    decBuf,     \* dec: frames the decoder has read from the body ahead of Decode
    columnsCount, \* columns.count
    nextPc,     \* Next: "idle" | "waiting" (called, not returned)
    nextRet,    \* what the last Next returned: "none" | "row" | "eof" | "err"
    dest,       \* the caller's destination slots
    yielded,    \* what dest held after each Next that returned nil, in order
    lateFrame   \* a frame has arrived while a Next was suspended with nothing to decode

consVars == <<isPc, encPc>>
pipeVars == <<pipeW, prClosed, outbound, reqEnd>>
respVars == <<wire, nEmitted, bodyEnd, respClosed>>
rdVars   == <<rdPc, rdAck, rdUnknown, scanned, errCh, ackChClosed>>
callVars == <<acked, errsRecv, errSends, lateAcks, unknownAcks, postCloseAcks>>
insVars  == <<curr, ackMap, insPc>>
clVars   == <<clPc, closeCalls, closeRets, stolen>>
sessVars == <<rows, insertsStreamWriters, readers, closers, returnedRows, returnedWriters,
              lastCall>>

concVars == <<crPc, crKind, crLocal>>
rowVars  == <<qsPc, respBody, bodyEnded, sentRows, decBuf, columnsCount, nextPc, nextRet,
              dest, yielded, lateFrame>>

vars == <<consVars, pipeVars, respVars, rdVars, callVars, insVars, clVars, sessVars,
          concVars, rowVars>>

Init ==
    /\ isPc = "idle" /\ encPc = "none"
    /\ pipeW = None /\ prClosed = FALSE /\ outbound = <<>> /\ reqEnd = "open"
    /\ wire = <<>> /\ nEmitted = 0 /\ bodyEnd = "open" /\ respClosed = 0
    /\ rdPc = "none" /\ rdAck = ZeroAck /\ rdUnknown = FALSE /\ scanned = <<>>
    /\ errCh = [buf |-> <<>>, closed |-> FALSE] /\ ackChClosed = FALSE
    /\ acked = <<>> /\ errsRecv = 0 /\ errSends = 0 /\ lateAcks = 0 /\ unknownAcks = 0
    /\ postCloseAcks = 0
    /\ curr = 0 /\ ackMap = {} /\ insPc = "idle"
    /\ clPc = "idle" /\ closeCalls = 0 /\ closeRets = <<>> /\ stolen = 0
    /\ rows = <<>> /\ insertsStreamWriters = <<>>
    /\ readers = <<>> /\ closers = <<>>
    /\ returnedRows = {} /\ returnedWriters = {}
    /\ lastCall = NoCall
    /\ crPc = [g \in Creators |-> "idle"]
    /\ crKind = [g \in Creators |-> "none"]
    /\ crLocal = [g \in Creators |-> <<>>]
    /\ qsPc = "idle" /\ respBody = <<>> /\ bodyEnded = FALSE /\ sentRows = <<>>
    /\ decBuf = <<>> /\ columnsCount = 0
    /\ nextPc = "idle" /\ nextRet = "none" /\ dest = <<>> /\ yielded = <<>>
    /\ lateFrame = FALSE

\* A panic in the reader goroutine ends the process: nothing runs afterwards.
Running == rdPc # "panic"

\* ------------------------------------------------- Client.InsertsStream
\* Lines 434-446: io.Pipe, makeRequest, the channels, and the errgroup task that
\* encodes the target descriptor onto pw (it blocks until the pipe is read).
InsertsStreamStart ==
    /\ isPc = "idle"
    /\ \E mkOk \in BOOLEAN :
           IF mkOk
           THEN isPc' = "do" /\ encPc' = "writing" /\ pipeW' = TargetUnit
           ELSE isPc' = "failed" /\ UNCHANGED <<encPc, pipeW>>
    /\ UNCHANGED <<prClosed, outbound, reqEnd, respVars, rdVars, callVars, insVars,
                   clVars, sessVars, concVars, rowVars>>

\* pr.Read by the transport: what a read of the pipe yields. Nothing in the
\* program closes pw, so a read never yields io.EOF.
PipeRead(closedR, w) ==
    IF closedR THEN "ErrClosedPipe" ELSE IF w # None THEN "data" ELSE "block"

\* The transport reads one written unit from the request body and sends it; the
\* blocked pw.Write (the descriptor's or an Insert's) returns nil.
TransportReadBody ==
    /\ Running
    /\ isPc \in {"do", "wait", "returned"}
    /\ reqEnd = "open"
    /\ PipeRead(prClosed, pipeW) = "data"
    /\ outbound' = Append(outbound, pipeW)
    /\ pipeW' = None
    /\ IF encPc = "writing"
       THEN encPc' = "done" /\ UNCHANGED insPc
       ELSE insPc' = "idle" /\ UNCHANGED encPc
    /\ UNCHANGED <<isPc, prClosed, reqEnd, respVars, rdVars, callVars, curr, ackMap,
                   clVars, sessVars, concVars, rowVars>>

\* The transport reads the request body after pr.Close(): the read fails with
\* io.ErrClosedPipe, which ends the request body with an error, not with EOF.
TransportReadClosed ==
    /\ Running
    /\ isPc \in {"do", "wait", "returned"}
    /\ reqEnd = "open"
    /\ PipeRead(prClosed, pipeW) = "ErrClosedPipe"
    /\ reqEnd' = "error"
    /\ UNCHANGED <<consVars, pipeW, prClosed, outbound, respVars, rdVars, callVars,
                   insVars, clVars, sessVars, concVars, rowVars>>

\* Lines 447-450: c.http.Do(req) returns the response (its body still open) or
\* an error; on an error InsertsStream returns at once.
HttpDoReturn ==
    /\ isPc = "do"
    /\ \E ok \in BOOLEAN : isPc' = IF ok THEN "wait" ELSE "failed"
    /\ UNCHANGED <<encPc, pipeVars, respVars, rdVars, callVars, insVars, clVars, sessVars,
                   concVars, rowVars>>

\* Lines 451-480: g.Wait() returns once the descriptor's Encode has returned;
\* on its error InsertsStream returns it, else it starts the reader goroutine,
\* registers the writer and returns it.
InsertsStreamFinish ==
    /\ isPc = "wait"
    /\ encPc \in {"done", "err"}
    /\ IF encPc = "done"
       THEN /\ isPc' = "returned"
            /\ rdPc' = "scan"
            /\ insertsStreamWriters' = Append(insertsStreamWriters, 1)
       ELSE /\ isPc' = "failed"
            /\ UNCHANGED <<rdPc, insertsStreamWriters>>
    /\ UNCHANGED <<encPc, pipeVars, respVars, rdAck, rdUnknown, scanned, errCh,
                   ackChClosed, callVars, insVars, clVars, rows, readers, closers,
                   returnedRows, returnedWriters, lastCall, concVars, rowVars>>

\* ------------------------------------------------------ the remote service
\* The remote writes one more line on the response body.
RemoteEmit ==
    /\ Running
    /\ isPc \in {"wait", "returned"}
    /\ bodyEnd = "open"
    /\ nEmitted < MaxLines
    /\ \E line \in Lines : wire' = Append(wire, line)
    /\ nEmitted' = nEmitted + 1
    /\ UNCHANGED <<consVars, pipeVars, bodyEnd, respClosed, rdVars, callVars, insVars,
                   clVars, sessVars, concVars, rowVars>>

\* The response body ends: cleanly (EOF) or with an I/O error.
RemoteEnd ==
    /\ Running
    /\ isPc \in {"wait", "returned"}
    /\ bodyEnd = "open"
    /\ \E e \in {"eof", "err"} : bodyEnd' = e
    /\ UNCHANGED <<consVars, pipeVars, wire, nEmitted, respClosed, rdVars, callVars,
                   insVars, clVars, sessVars, concVars, rowVars>>

\* ------------------------------------- the background acknowledgement reader
\* What sc.Scan() finds on the response body: a read of a closed body fails;
\* else the next line; else, once the body has ended, its end.
ScanResult ==
    IF respClosed > 0 THEN "err"
    ELSE IF wire # <<>> THEN "line"
    ELSE IF bodyEnd = "eof" THEN "eof"
    ELSE IF bodyEnd = "err" THEN "err"
    ELSE "block"

\* A reader that does not wait for the receiver: a line that decodes is dropped
\* when nobody receives (as a select with a default around line 464 would) and
\* the loop scans on.
ReaderScanNoBlock ==
    /\ rdPc = "scan"
    /\ ScanResult # "block"
    /\ IF ScanResult = "line"
       THEN LET line == Head(wire)
                u    == Unmarshal(line)
            IN  /\ wire' = Tail(wire)
                /\ scanned' = Append(scanned, line)
                /\ rdAck' = u.ack
                /\ rdUnknown' = (~u.err /\ u.ack.seq \notin ackMap)
                /\ rdPc' = IF u.err THEN "senderr" ELSE "scan"
                /\ UNCHANGED ackChClosed
       ELSE /\ rdPc' = IF ScanResult = "eof" THEN "done" ELSE "senderr2"
            /\ ackChClosed' = (ScanResult = "eof")
            /\ UNCHANGED <<wire, scanned, rdAck, rdUnknown>>
    /\ UNCHANGED <<consVars, pipeVars, nEmitted, bodyEnd, respClosed, errCh, callVars,
                   insVars, clVars, sessVars, concVars, rowVars>>

\* Lines 457-460: sc.Scan() returns a line, which is unmarshalled into a fresh
\* ack; or it returns false and the loop ends (lines 466, 455: with sc.Err() nil
\* the goroutine returns and its deferred close(ackCh) runs).
ReaderScan ==
    /\ rdPc = "scan"
    /\ ScanResult # "block"
    /\ IF ScanResult = "line"
       THEN LET line == Head(wire)
                u    == Unmarshal(line)
            IN  /\ wire' = Tail(wire)
                /\ scanned' = Append(scanned, line)
                /\ rdAck' = u.ack
                /\ rdUnknown' = (~u.err /\ u.ack.seq \notin ackMap)
                /\ rdPc' = IF u.err THEN "senderr" ELSE "pub"
                /\ UNCHANGED ackChClosed
       ELSE /\ rdPc' = IF ScanResult = "eof" THEN "done" ELSE "senderr2"
            /\ ackChClosed' = (ScanResult = "eof")
            /\ UNCHANGED <<wire, scanned, rdAck, rdUnknown>>
    /\ UNCHANGED <<consVars, pipeVars, nEmitted, bodyEnd, respClosed, errCh, callVars,
                   insVars, clVars, sessVars, concVars, rowVars>>

\* Lines 461 and 467: errCh <- err.
ReaderSendErr ==
    /\ rdPc \in {"senderr", "senderr2"}
    /\ ChanSend(errCh) # "block"
    /\ IF ChanSend(errCh) = "ok"
       THEN /\ errCh' = [errCh EXCEPT !.buf = Append(@, "err")]
            /\ errSends' = errSends + 1
            /\ rdPc' = IF rdPc = "senderr" THEN "closeerr" ELSE "closeerr2"
       ELSE /\ rdPc' = "panic"
            /\ UNCHANGED <<errCh, errSends>>
    /\ UNCHANGED <<consVars, pipeVars, respVars, rdAck, rdUnknown, scanned, ackChClosed,
                   acked, errsRecv, lateAcks, unknownAcks, postCloseAcks, insVars, clVars,
                   sessVars, concVars, rowVars>>

\* Lines 462 and 468: close(errCh). After line 462 the loop body goes on to
\* line 464; after line 468 the goroutine returns (deferred close(ackCh)).
ReaderCloseErr ==
    /\ rdPc \in {"closeerr", "closeerr2"}
    /\ IF ChanClose(errCh) = "ok"
       THEN /\ errCh' = [errCh EXCEPT !.closed = TRUE]
            /\ rdPc' = IF rdPc = "closeerr" THEN "pub" ELSE "done"
            /\ ackChClosed' = (rdPc = "closeerr2")
       ELSE /\ rdPc' = "panic"
            /\ UNCHANGED <<errCh, ackChClosed>>
    /\ UNCHANGED <<consVars, pipeVars, respVars, rdAck, rdUnknown, scanned, callVars,
                   insVars, clVars, sessVars, concVars, rowVars>>

\* Line 464, ackCh <- ack, met by the caller's receive from the unbuffered ackCh:
\* the send completes only when the caller receives.
RecvAck ==
    /\ rdPc = "pub"
    /\ acked' = Append(acked, rdAck)
    /\ lateAcks' = lateAcks + (IF errSends > 0 THEN 1 ELSE 0)
    /\ unknownAcks' = unknownAcks + (IF rdUnknown THEN 1 ELSE 0)
    /\ postCloseAcks' = postCloseAcks + (IF closeRets # <<>> THEN 1 ELSE 0)
    /\ rdPc' = "scan"
    /\ UNCHANGED <<consVars, pipeVars, respVars, rdAck, rdUnknown, scanned, errCh,
                   ackChClosed, errsRecv, errSends, insVars, clVars, sessVars, concVars, rowVars>>

\* The caller receives the buffered error from errCh.
RecvErr ==
    /\ Running
    /\ errCh.buf # <<>>
    /\ errCh' = [errCh EXCEPT !.buf = Tail(@)]
    /\ errsRecv' = errsRecv + 1
    /\ UNCHANGED <<consVars, pipeVars, respVars, rdPc, rdAck, rdUnknown, scanned,
                   ackChClosed, acked, errSends, lateAcks, unknownAcks, postCloseAcks,
                   insVars, clVars, sessVars, concVars, rowVars>>

\* ------------------------------------------------------ InsertsStreamWriter
\* Insert: takes the next sequence number, records it in the correlation table
\* and encodes the record onto pw. On a pipe whose reader is closed the write
\* fails at once; else it blocks until the transport reads it.
Insert ==
    /\ Running
    /\ isPc = "returned"
    /\ insPc = "idle"
    /\ curr < MaxInserts
    /\ curr' = curr + 1
    /\ ackMap' = ackMap \cup {curr}
    /\ IF prClosed
       THEN UNCHANGED <<pipeW, insPc>>
       ELSE pipeW' = RowUnit(curr) /\ insPc' = "writing"
    /\ UNCHANGED <<consVars, prClosed, outbound, reqEnd, respVars, rdVars, callVars,
                   clVars, sessVars, concVars, rowVars>>

\* ------------------------------------------------- InsertsStreamCloser.Close
\* Lines 420-422: i.req.Close(), where req is pr, the READ half of the pipe
\* (line 477). PipeReader.Close returns nil; a pw.Write blocked on the pipe
\* returns io.ErrClosedPipe.
CloseReq ==
    /\ Running
    /\ isPc = "returned"
    /\ clPc = "idle"
    /\ closeCalls < MaxCloses
    /\ closeCalls' = closeCalls + 1
    /\ prClosed' = TRUE
    /\ pipeW' = None
    /\ insPc' = "idle"
    /\ clPc' = "drain"
    /\ UNCHANGED <<consVars, outbound, reqEnd, respVars, rdVars, callVars, curr, ackMap,
                   closeRets, stolen, sessVars, concVars, rowVars>>

\* Lines 423-425: io.Copy(ioutil.Discard, i.resp) reads the response body to its
\* end on the caller's goroutine, next to the reader goroutine's scanner. One
\* step is one read: a line is discarded (or only its head, which leaves the
\* scanner a line that is no JSON); at EOF the copy returns nil; a failed read
\* makes Close return the error, the body left open.
CloseDrain ==
    /\ Running
    /\ clPc = "drain"
    /\ ScanResult # "block"
    /\ \/ /\ ScanResult = "line"
          /\ \/ wire' = Tail(wire)
             \/ /\ rdPc \notin {"none", "done"}
                /\ Head(wire) # Garbage
                /\ wire' = <<Garbage>> \o Tail(wire)
          /\ stolen' = stolen + (IF rdPc \in {"none", "done"} THEN 0 ELSE 1)
          /\ UNCHANGED <<clPc, closeRets>>
       \/ /\ ScanResult = "eof"
          /\ clPc' = "closeresp"
          /\ UNCHANGED <<wire, closeRets, stolen>>
       \/ /\ ScanResult = "err"
          /\ clPc' = "idle"
          /\ closeRets' = Append(closeRets, "err")
          /\ UNCHANGED <<wire, stolen>>
    /\ UNCHANGED <<consVars, pipeVars, nEmitted, bodyEnd, respClosed, rdVars, callVars,
                   insVars, closeCalls, sessVars, concVars, rowVars>>

\* Lines 426-429: i.resp.Close(), whose error (if any) Close returns.
CloseResp ==
    /\ Running
    /\ clPc = "closeresp"
    /\ respClosed' = respClosed + 1
    /\ clPc' = "idle"
    /\ \E r \in {"nil", "err"} : closeRets' = Append(closeRets, r)
    /\ UNCHANGED <<consVars, pipeVars, wire, nEmitted, bodyEnd, rdVars, callVars, insVars,
                   closeCalls, stolen, sessVars, concVars, rowVars>>

\* ------------------------------------------------------------- the session
\* The variables of the one insertion stream SpecIns follows in detail.
insDetail == <<consVars, pipeVars, respVars, rdVars, callVars, insVars, clVars>>

\* header.QueryID: "" for a pull query.
QueryIDs == {"", "qA"}

\* Where QueryStream can fail: makeRequest, c.http.Do, dec.Decode(&header).
QueryStreamOutcomes == {"ok", "mkerr", "doerr", "hdrerr"}

\* Where InsertsStream can fail: makeRequest, c.http.Do, g.Wait.
InsertsStreamOutcomes == {"ok", "mkerr", "doerr", "encerr"}

\* What a Close of a reader's byte source meets: the terminate request fails,
\* or body.Close() fails, or neither.
ReaderCloseOutcomes == {"ok", "termfail", "bodyfail"}

\* What a Close of an insertion stream meets: the drain's read of the response
\* body fails, or resp.Close() fails, or neither.
CloserCloseOutcomes == {"ok", "drainfail", "closefail"}

\* Lines 365-369: the queryStreamReadCloser of a new reader. closed: a Close of
\* it has returned nil; released: body.Close() has been called.
NewReader(qid) == [queryID |-> qid, closed |-> FALSE, released |-> FALSE]

\* Line 477: the InsertsStreamCloser of a new writer. closed: a Close of it has
\* returned nil.
NewCloser == [closed |-> FALSE, reqClosed |-> FALSE, respClosed |-> FALSE]

\* A QueryStream that registers the reader as soon as the response is there,
\* before the header is decoded: a failed header decode leaves it in c.rows.
QueryStreamRegistersEarly ==
    /\ Len(readers) + Len(closers) < MaxStreams
    /\ \E out \in QueryStreamOutcomes, qid \in QueryIDs :
         LET id == Len(readers) + 1
         IN  IF out = "ok"
             THEN /\ readers' = Append(readers, NewReader(qid))
                  /\ rows' = Append(rows, id)
                  /\ returnedRows' = returnedRows \cup {id}
                  /\ lastCall' = [NoCall EXCEPT !.op = "QueryStream", !.id = id]
             ELSE IF out = "hdrerr"
             THEN /\ readers' = Append(readers, NewReader(""))
                  /\ rows' = Append(rows, id)
                  /\ lastCall' = [NoCall EXCEPT !.op = "QueryStream", !.ret = "err"]
                  /\ UNCHANGED returnedRows
             ELSE /\ lastCall' = [NoCall EXCEPT !.op = "QueryStream", !.ret = "err"]
                  /\ UNCHANGED <<readers, rows, returnedRows>>
    /\ UNCHANGED <<insDetail, concVars, rowVars, insertsStreamWriters, closers,
                   returnedWriters>>

\* QueryStream without the append of line 376.
QueryStreamNoRegister ==
    /\ Len(readers) + Len(closers) < MaxStreams
    /\ \E out \in QueryStreamOutcomes, qid \in QueryIDs :
         IF out = "ok"
         THEN LET id == Len(readers) + 1
              IN  /\ readers' = Append(readers, NewReader(qid))
                  /\ UNCHANGED rows
                  /\ returnedRows' = returnedRows \cup {id}
                  /\ lastCall' = [NoCall EXCEPT !.op = "QueryStream", !.id = id]
         ELSE /\ lastCall' = [NoCall EXCEPT !.op = "QueryStream", !.ret = "err"]
              /\ UNCHANGED <<readers, rows, returnedRows>>
    /\ UNCHANGED <<insDetail, concVars, rowVars, insertsStreamWriters, closers, returnedWriters>>

\* Lines 344-378: QueryStream. Every failure returns before line 363; success
\* builds the reader around the header's query id and appends it to c.rows.
QueryStream ==
    /\ Len(readers) + Len(closers) < MaxStreams
    /\ \E out \in QueryStreamOutcomes, qid \in QueryIDs :
         IF out = "ok"
         THEN LET id == Len(readers) + 1
              IN  /\ readers' = Append(readers, NewReader(qid))
                  /\ rows' = Append(rows, id)
                  /\ returnedRows' = returnedRows \cup {id}
                  /\ lastCall' = [NoCall EXCEPT !.op = "QueryStream", !.id = id]
         ELSE /\ lastCall' = [NoCall EXCEPT !.op = "QueryStream", !.ret = "err"]
              /\ UNCHANGED <<readers, rows, returnedRows>>
    /\ UNCHANGED <<insDetail, concVars, rowVars, insertsStreamWriters, closers, returnedWriters>>

\* Lines 433-481: InsertsStream as one call of the session's caller. Every
\* failure returns before line 471; success appends the writer to
\* c.insertsStreamWriters.
SessInsertsStream ==
    /\ Len(readers) + Len(closers) < MaxStreams
    /\ \E out \in InsertsStreamOutcomes :
         IF out = "ok"
         THEN LET id == Len(closers) + 1
              IN  /\ closers' = Append(closers, NewCloser)
                  /\ insertsStreamWriters' = Append(insertsStreamWriters, id)
                  /\ returnedWriters' = returnedWriters \cup {id}
                  /\ lastCall' = [NoCall EXCEPT !.op = "InsertsStream", !.id = id]
         ELSE /\ lastCall' = [NoCall EXCEPT !.op = "InsertsStream", !.ret = "err"]
              /\ UNCHANGED <<closers, insertsStreamWriters, returnedWriters>>
    /\ UNCHANGED <<insDetail, concVars, rowVars, rows, readers, returnedRows>>

\* Lines 386-399: CloseQuery sends the terminate request; nil unless it fails.
CloseQuery(termOk) == IF termOk THEN "nil" ELSE "err"

\* Lines 387-395: the request CloseQuery sends, its body the CloseQueryPayload
\* with the query id it was given.
CloseQueryRequest(qid) == [ev |-> "terminate", queryID |-> qid]

\* Line 340: q.body.Close(), the response body's.
BodyClose == [ev |-> "bodyclose", queryID |-> ""]

\* A Close that closes the body first and sends the terminate request after.
ReadCloserCloseBodyFirst(rd, out) ==
    LET err      == CloseQuery(out # "termfail")
        released == TRUE
        ret      == IF out = "bodyfail" THEN "err" ELSE err
    IN  [rd |-> [rd EXCEPT !.released = @ \/ released,
                           !.closed = @ \/ ret = "nil"],
         ret |-> ret, terminated |-> TRUE, released |-> released,
         events |-> <<BodyClose, CloseQueryRequest(rd.queryID)>>]

\* Lines 336-341: queryStreamReadCloser.Close. CloseQuery is called on every
\* Close, with q.queryID; on its error Close returns it, and body.Close() is
\* not reached. events: what the call sent and closed, in order.
ReadCloserClose(rd, out) ==
    LET err      == CloseQuery(out # "termfail")
        released == (err = "nil")
        ret      == IF err # "nil" THEN err
                    ELSE IF out = "bodyfail" THEN "err" ELSE "nil"
    IN  [rd |-> [rd EXCEPT !.released = @ \/ released,
                           !.closed = @ \/ ret = "nil"],
         ret |-> ret, terminated |-> TRUE, released |-> released,
         events |-> <<CloseQueryRequest(rd.queryID)>>
                        \o (IF released THEN <<BodyClose>> ELSE <<>>)]

\* Lines 419-430: InsertsStreamCloser.Close as one call. req.Close() (the pipe
\* reader's, always nil), then io.Copy, which fails on a body closed before or
\* on a failed read and then ends Close, then resp.Close().
CloserClose(cl, out) ==
    LET drainErr == (cl.respClosed \/ out = "drainfail")
        ret      == IF drainErr \/ out = "closefail" THEN "err" ELSE "nil"
    IN  [cl |-> [cl EXCEPT !.reqClosed = TRUE,
                           !.respClosed = @ \/ ~drainErr,
                           !.closed = @ \/ ret = "nil"],
         ret |-> ret, released |-> ~drainErr]

\* The caller closes a reader's byte source, the queryStreamReadCloser of line
\* 365 (reached through the reader it was built into).
RowsClose ==
    /\ \E id \in 1 .. Len(readers), out \in ReaderCloseOutcomes :
         LET r == ReadCloserClose(readers[id], out)
         IN  /\ readers' = [readers EXCEPT ![id] = r.rd]
             /\ lastCall' = [NoCall EXCEPT !.op = "RowsClose", !.id = id,
                                !.ret = r.ret,
                                !.already = readers[id].closed,
                                !.termOk = (out # "termfail"),
                                !.terminated = r.terminated,
                                !.released = r.released,
                                !.events = r.events]
    /\ UNCHANGED <<insDetail, concVars, rowVars, rows, insertsStreamWriters, closers, returnedRows,
                   returnedWriters>>

\* The caller closes an insertion stream's closer, the InsertsStreamCloser of
\* line 477 (reached through the writer it was built into).
WriterClose ==
    /\ \E id \in 1 .. Len(closers), out \in CloserCloseOutcomes :
         LET r == CloserClose(closers[id], out)
         IN  /\ closers' = [closers EXCEPT ![id] = r.cl]
             /\ lastCall' = [NoCall EXCEPT !.op = "WriterClose", !.id = id,
                                !.ret = r.ret,
                                !.already = closers[id].closed,
                                !.released = r.released]
    /\ UNCHANGED <<insDetail, concVars, rowVars, rows, insertsStreamWriters, readers, returnedRows,
                   returnedWriters>>

\* Lines 561-568: the loop over c.rows from index i, which returns at the first
\* member whose Close fails (a reader's Close is its byte source's Close). The result: the readers afterwards, the members
\* whose Close was called, and the error.
RECURSIVE CloseRowsFrom(_, _, _)
CloseRowsFrom(i, rds, outs) ==
    IF i > Len(rows) THEN [readers |-> rds, attempted |-> {}, ret |-> "nil"]
    ELSE LET id   == rows[i]
             r    == ReadCloserClose(rds[id], outs[id])
             rds2 == [rds EXCEPT ![id] = r.rd]
         IN  IF r.ret # "nil"
             THEN [readers |-> rds2, attempted |-> {id}, ret |-> r.ret]
             ELSE LET rest == CloseRowsFrom(i + 1, rds2, outs)
                  IN  [rest EXCEPT !.attempted = @ \cup {id}]

\* Lines 569-576: the loop over c.insertsStreamWriters, likewise.
RECURSIVE CloseWritersFrom(_, _, _)
CloseWritersFrom(i, cls, outs) ==
    IF i > Len(insertsStreamWriters)
    THEN [closers |-> cls, attempted |-> {}, ret |-> "nil"]
    ELSE LET id   == insertsStreamWriters[i]
             r    == CloserClose(cls[id], outs[id])
             cls2 == [cls EXCEPT ![id] = r.cl]
         IN  IF r.ret # "nil"
             THEN [closers |-> cls2, attempted |-> {id}, ret |-> r.ret]
             ELSE LET rest == CloseWritersFrom(i + 1, cls2, outs)
                  IN  [rest EXCEPT !.attempted = @ \cup {id}]

\* Lines 560-578: Client.Close. The second loop runs only if the first ended
\* without an error. The inputs: which member's Close is the first to meet a
\* failure (f: 0 for none, else readers before writers) and which failure; what
\* members after a failed one would meet is never asked.
ClientClose ==
    /\ \E f \in 0 .. (Len(readers) + Len(closers)), early \in BOOLEAN :
         LET ro == [id \in 1 .. Len(readers) |->
                       IF id # f THEN "ok"
                       ELSE IF early THEN "termfail" ELSE "bodyfail"]
             wo == [id \in 1 .. Len(closers) |->
                       IF Len(readers) + id # f THEN "ok"
                       ELSE IF early THEN "drainfail" ELSE "closefail"]
             a  == CloseRowsFrom(1, readers, ro)
             b  == IF a.ret # "nil"
                   THEN [closers |-> closers, attempted |-> {}, ret |-> a.ret]
                   ELSE CloseWritersFrom(1, closers, wo)
         IN  /\ readers' = a.readers
             /\ closers' = b.closers
             /\ lastCall' = [NoCall EXCEPT !.op = "ClientClose", !.ret = b.ret,
                                !.attemptedRows = a.attempted,
                                !.attemptedWriters = b.attempted]
    /\ UNCHANGED <<insDetail, concVars, rowVars, rows, insertsStreamWriters, returnedRows,
                   returnedWriters>>

\* ----------------------------------------------- creations running at once
CreatorKinds == {"QueryStream", "InsertsStream"}

\* Lines 344-375 and 433-478: a creating call up to its append. It fails (and
\* returns before the append) or has its new stream in hand.
CreateCall(g) ==
    /\ crPc[g] = "idle"
    /\ \E kind \in CreatorKinds, ok \in BOOLEAN :
         /\ crKind' = [crKind EXCEPT ![g] = kind]
         /\ crPc' = [crPc EXCEPT ![g] = IF ok THEN "append" ELSE "failed"]
    /\ UNCHANGED <<insDetail, sessVars, crLocal, rowVars>>

\* Lines 376 and 479, first half: append reads the slice c.rows (or
\* c.insertsStreamWriters) holds. No lock is taken, so the read and the write
\* back are two steps other goroutines run between.
AppendLoad(g) ==
    /\ crPc[g] = "append"
    /\ crLocal' = [crLocal EXCEPT ![g] = IF crKind[g] = "QueryStream"
                                         THEN rows ELSE insertsStreamWriters]
    /\ crPc' = [crPc EXCEPT ![g] = "loaded"]
    /\ UNCHANGED <<insDetail, sessVars, crKind, rowVars>>

\* Lines 376-377 and 479-480, second half: the slice read, with the new stream
\* appended, is assigned to the field, and the call returns the stream.
AppendStore(g) ==
    /\ crPc[g] = "loaded"
    /\ IF crKind[g] = "QueryStream"
       THEN rows' = Append(crLocal[g], g) /\ UNCHANGED insertsStreamWriters
       ELSE insertsStreamWriters' = Append(crLocal[g], g) /\ UNCHANGED rows
    /\ crPc' = [crPc EXCEPT ![g] = "returned"]
    /\ UNCHANGED <<insDetail, readers, closers, returnedRows, returnedWriters, lastCall,
                   crKind, crLocal, rowVars>>

\* --------------------------------------------------------- QueryStreamRows
\* header.ColumnNames of the queries followed.
ColumnNames == {<<"id">>, <<"id", "name">>}

\* The scalar values a row carries.
Values == {"a", "b"}

\* The frames of a query's response body: the header object, then one JSON
\* array per row. vals: the header's column names, a row's values.
HeaderFrames == {[kind |-> "header", vals |-> c] : c \in ColumnNames}

RowFrames ==
    {[kind |-> "row", vals |-> v] :
        v \in UNION {[1 .. Len(c) -> Values] : c \in ColumnNames}}

\* A destination slot Next has not assigned.
Nil == "nil"

\* The remote writes the next frame of the response body: the header first,
\* then rows.
RowsRemoteSend ==
    /\ ~bodyEnded
    /\ IF qsPc = "idle" /\ respBody = <<>>
       THEN /\ \E h \in HeaderFrames : respBody' = <<h>>
            /\ UNCHANGED <<sentRows, lateFrame>>
       ELSE /\ Len(sentRows) < MaxRowFrames
            /\ \E f \in RowFrames :
                 /\ respBody' = Append(respBody, f)
                 /\ sentRows' = Append(sentRows, f.vals)
            /\ lateFrame' = (lateFrame \/ (nextPc = "waiting" /\ decBuf = <<>>
                                            /\ respBody = <<>>))
    /\ UNCHANGED <<insDetail, sessVars, concVars, qsPc, bodyEnded, decBuf, columnsCount,
                   nextPc, nextRet, dest, yielded>>

\* The remote ends the response body.
RowsRemoteEnd ==
    /\ ~bodyEnded
    /\ bodyEnded' = TRUE
    /\ UNCHANGED <<insDetail, sessVars, concVars, qsPc, respBody, sentRows, decBuf,
                   columnsCount, nextPc, nextRet, dest, yielded, lateFrame>>

\* How many frames a Read of the body may hand the decoder when Decode finds
\* its buffer empty: at least one, at most what has arrived.
ReadSizes(buf, body) == IF buf # <<>> \/ body = <<>> THEN {0} ELSE 1 .. Len(body)

\* dec.Decode(&v) on a json.Decoder over the body: the next frame, from the
\* decoder's buffer when it holds one, else from a Read of j frames, what is
\* read beyond the first staying in the buffer; io.EOF on an ended body.
Decode(buf, body, j) ==
    IF buf # <<>>
    THEN [eof |-> FALSE, frame |-> <<Head(buf)>>, buf |-> Tail(buf), body |-> body]
    ELSE IF body # <<>>
    THEN [eof |-> FALSE, frame |-> <<body[1]>>, buf |-> SubSeq(body, 2, j),
          body |-> SubSeq(body, j + 1, Len(body))]
    ELSE [eof |-> TRUE, frame |-> <<>>, buf |-> <<>>, body |-> <<>>]

\* Decode returns (it blocks in Read while nothing has arrived on an open body).
CanDecode == decBuf # <<>> \/ respBody # <<>> \/ bodyEnded

\* A QueryStream that gives the reader a decoder of its own on resp.Body
\* instead of the one that decoded the header.
QueryStreamHeaderFreshDecoder ==
    /\ qsPc = "idle"
    /\ CanDecode
    /\ \E j \in ReadSizes(decBuf, respBody) :
         LET d == Decode(decBuf, respBody, j)
         IN  /\ respBody' = d.body
             /\ decBuf' = <<>>
             /\ IF ~d.eof /\ d.frame[1].kind = "header"
                THEN /\ qsPc' = "created"
                     /\ columnsCount' = Len(d.frame[1].vals)
                ELSE /\ qsPc' = "failed"
                     /\ UNCHANGED columnsCount
    /\ UNCHANGED <<insDetail, sessVars, concVars, bodyEnded, sentRows, nextPc, nextRet,
                   dest, yielded, lateFrame>>

\* Lines 358-375: QueryStream, once c.http.Do has returned the response. A
\* decoder is made on resp.Body and decodes the header; on its error the call
\* fails; else the reader is built with that same decoder (line 370) and with
\* columns.count the number of the header's column names.
QueryStreamHeader ==
    /\ qsPc = "idle"
    /\ CanDecode
    /\ \E j \in ReadSizes(decBuf, respBody) :
         LET d == Decode(decBuf, respBody, j)
         IN  /\ respBody' = d.body
             /\ decBuf' = d.buf
             /\ IF ~d.eof /\ d.frame[1].kind = "header"
                THEN /\ qsPc' = "created"
                     /\ columnsCount' = Len(d.frame[1].vals)
                ELSE /\ qsPc' = "failed"
                     /\ UNCHANGED columnsCount
    /\ UNCHANGED <<insDetail, sessVars, concVars, bodyEnded, sentRows, nextPc, nextRet,
                   dest, yielded, lateFrame>>

\* Next(dest) is called, with a destination of columns.count slots (the one of
\* the call before, when there was one).
NextCall ==
    /\ qsPc = "created"
    /\ nextPc = "idle"
    /\ nextRet \in {"none", "row"}
    /\ nextPc' = "waiting"
    /\ dest' = IF Len(dest) = columnsCount THEN dest
               ELSE [i \in 1 .. columnsCount |-> Nil]
    /\ UNCHANGED <<insDetail, sessVars, concVars, qsPc, respBody, bodyEnded, sentRows,
                   decBuf, columnsCount, nextRet, yielded, lateFrame>>

\* Next returns: it decodes one frame with the reader's decoder, suspended in
\* the body's Read until one has arrived. At the end of the body it returns the
\* end-of-sequence signal; a frame that is no array of columns.count values is
\* a decode error and leaves dest alone; else each value is assigned to the
\* slot of its index.
NextReturn ==
    /\ nextPc = "waiting"
    /\ CanDecode
    /\ \E j \in ReadSizes(decBuf, respBody) :
         LET d == Decode(decBuf, respBody, j)
         IN  /\ respBody' = d.body
             /\ decBuf' = d.buf
             /\ IF d.eof
                THEN nextRet' = "eof" /\ UNCHANGED <<dest, yielded>>
                ELSE IF d.frame[1].kind # "row" \/ Len(d.frame[1].vals) # columnsCount
                THEN nextRet' = "err" /\ UNCHANGED <<dest, yielded>>
                ELSE /\ nextRet' = "row"
                     /\ dest' = [i \in 1 .. columnsCount |-> d.frame[1].vals[i]]
                     /\ yielded' = Append(yielded, dest')
    /\ nextPc' = "idle"
    /\ UNCHANGED <<insDetail, sessVars, concVars, qsPc, bodyEnded, sentRows, columnsCount,
                   lateFrame>>

\* ------------------------------------------------------------ specification
NextIns ==
    \/ InsertsStreamStart
    \/ TransportReadBody
    \/ TransportReadClosed
    \/ HttpDoReturn
    \/ InsertsStreamFinish
    \/ RemoteEmit
    \/ RemoteEnd
    \/ ReaderScan
    \/ ReaderSendErr
    \/ ReaderCloseErr
    \/ RecvAck
    \/ RecvErr
    \/ Insert
    \/ CloseReq
    \/ CloseDrain
    \/ CloseResp

SpecIns == Init /\ [][NextIns]_vars

NextSess ==
    \/ QueryStream
    \/ SessInsertsStream
    \/ RowsClose
    \/ WriterClose
    \/ ClientClose

SpecSess == Init /\ [][NextSess]_vars

NextConc ==
    \/ \E g \in Creators : CreateCall(g)
    \/ \E g \in Creators : AppendLoad(g)
    \/ \E g \in Creators : AppendStore(g)

SpecConc == Init /\ [][NextConc]_vars

NextRows ==
    \/ RowsRemoteSend
    \/ RowsRemoteEnd
    \/ QueryStreamHeader
    \/ NextCall
    \/ NextReturn

SpecRows == Init /\ [][NextRows]_vars

\* ------------------------------------------------------------------ helpers
Range(f) == {f[i] : i \in DOMAIN f}

\* The acknowledgement a well-formed line carries.
AckOf(line) == [status |-> line.status, seq |-> line.seq]

WellFormed(ls) == \A i \in DOMAIN ls : ls[i].kind = "ack"

\* ------------------------------------------------------------------- claims

\* C1: whatever malformed lines or I/O failures the response body brings, the
\* reader sends an error on errCh at most once, closes errCh only after that one
\* send, and never sends on or closes an errCh that is closed already (in Go
\* either is a panic); a reader that has ended after a failure has sent one.
C1_ErrorSentOnceClosedOnce ==
    /\ rdPc # "panic"
    /\ errSends <= 1
    /\ errCh.closed => errSends = 1
    /\ (rdPc = "done" /\ ~WellFormed(scanned)) => (errSends = 1 /\ errCh.closed)

\* C2: once an error has been sent on errCh, the caller receives no further
\* acknowledgement from ackCh.
C2_NoAckAfterError == lateAcks = 0

\* C3: an acknowledgement whose seq was not in the stream's correlation table
\* when it was read is never received from ackCh.
C3_UnknownSeqNotDelivered == unknownAcks = 0

\* C4: while every line the reader has read is well-formed, the caller has
\* received exactly the acknowledgements of those lines, each once, seq and
\* status as on the wire, in wire order (all but the one being published);
\* and when the reader has ended on a clean end of body that no Close has read
\* from, those are all the lines the remote has written.
C4_AcksAsEmittedInOrder ==
    /\ WellFormed(scanned) =>
         /\ Len(acked) = Len(scanned) - (IF rdPc = "pub" THEN 1 ELSE 0)
         /\ \A i \in 1 .. Len(acked) : acked[i] = AckOf(scanned[i])
    /\ (rdPc = "done" /\ errSends = 0 /\ closeCalls = 0) =>
         /\ WellFormed(scanned)
         /\ Len(scanned) = nEmitted
         /\ Len(acked) = nEmitted

\* C4's case: two inserts, acknowledged in the opposite order, both received,
\* the reader ended at the end of the body.
C4_Witness ==
    /\ rdPc = "done"
    /\ closeCalls = 0
    /\ ackMap = {0, 1}
    /\ Len(acked) = 2
    /\ acked[1] = [status |-> "ok", seq |-> 1]
    /\ acked[2] = [status |-> "ok", seq |-> 0]

\* C5: Close closes the outbound path before it drains, drains to the end of the
\* response body before it closes it, and the remote sees the request body end
\* with end-of-input, never with an error.
C5_CloseOrderAndEndOfInput ==
    /\ clPc \in {"drain", "closeresp"} => prClosed
    /\ respClosed > 0 => (prClosed /\ wire = <<>> /\ bodyEnd = "eof")
    /\ reqEnd # "error"

\* C6: a Close of a reader's byte source or of an insertion stream that follows
\* a Close which returned nil returns nil, sends no terminate-query request
\* and releases nothing again.
C6_SecondCloseHasNoEffect ==
    (lastCall.op \in {"RowsClose", "WriterClose"} /\ lastCall.already) =>
        (lastCall.ret = "nil" /\ ~lastCall.terminated /\ ~lastCall.released)

\* C7: a Close of a reader's byte source whose terminate-query request fails has
\* still closed the response body, and returns the failure.
C7_ReleasedWhenTerminateFails ==
    (lastCall.op = "RowsClose" /\ ~lastCall.termOk) =>
        (lastCall.released /\ lastCall.ret = "err")

\* C8: Client.Close has called Close on every registered reader and on every
\* registered writer when it returns, whatever it returns.
C8_SessionCloseAttemptsAll ==
    lastCall.op = "ClientClose" =>
        /\ lastCall.attemptedRows = Range(rows)
        /\ lastCall.attemptedWriters = Range(insertsStreamWriters)

\* C9: every reader QueryStream has returned is in c.rows and every writer
\* InsertsStream has returned is in c.insertsStreamWriters, in every state
\* after the creating call: later creations and closes remove none.
C9_ReturnedStreamsAreMembers ==
    /\ returnedRows \subseteq Range(rows)
    /\ returnedWriters \subseteq Range(insertsStreamWriters)

\* C9's case: two readers and a writer created, then a Client.Close that closed
\* members, and all three are still registered.
C9_Witness ==
    /\ returnedRows = {1, 2}
    /\ returnedWriters = {1}
    /\ lastCall.op = "ClientClose"
    /\ lastCall.attemptedRows # {}
    /\ rows = <<1, 2>>
    /\ insertsStreamWriters = <<1>>

\* C10: the target descriptor is the first unit on the outbound path and only
\* inserted records follow it; when InsertsStream has returned, the descriptor's
\* write is no longer pending; and a failed write yields no stream.
C10_DescriptorFirstAndSettled ==
    /\ \A i \in 1 .. Len(outbound) :
         outbound[i].kind = (IF i = 1 THEN "target" ELSE "row")
    /\ isPc \in {"returned", "failed"} => encPc # "writing"
    /\ encPc = "err" => isPc # "returned"

\* C11: once a Close of the insertion stream has returned, the caller receives
\* no acknowledgement from ackCh.
C11_NoAckAfterCloseReturned == postCloseAcks = 0

\* C14: while the reader goroutine is running, no other context takes data from
\* the response body: Close's drain never consumes a line the reader has yet to
\* scan.
C14_ReaderAloneReadsBody == stolen = 0

C16_CloseCanReturn ==
    /\ (clPc = "drain" /\ ScanResult # "block") => ENABLED CloseDrain
    /\ clPc = "closeresp" => ENABLED CloseResp

\* C17: after a Close has returned, the reader goroutine has ended or has a
\* step of its own to take towards its end (and the close of ackCh it defers):
\* it is never left waiting for the caller to receive.
C17_ReaderEndsAfterClose ==
    (closeRets # <<>> /\ clPc = "idle") =>
        \/ rdPc \in {"done", "panic"}
        \/ ENABLED ReaderScan
        \/ ENABLED ReaderSendErr
        \/ ENABLED ReaderCloseErr

\* C19: when InsertsStream has failed, the task encoding the target descriptor
\* is not left in its pipe write: the write has returned, or the transport can
\* still read the pipe or find it closed.
C19_EncodeTaskEndsWhenDoFails ==
    (isPc = "failed" /\ encPc = "writing") =>
        \/ ENABLED TransportReadBody
        \/ ENABLED TransportReadClosed
        \/ ENABLED CloseReq

\* C20: whenever a Close of the insertion stream has returned, with or without
\* an error, the response body has been closed.
C20_BodyClosedWhenCloseReturns ==
    (closeRets # <<>> /\ clPc = "idle") => respClosed > 0

\* C13: a Close of a reader's byte source sends the terminate-query request
\* first, with the query id of the header the reader was built from, and closes
\* the response body only after it: no close of the body comes before that
\* request.
C13_TerminateBeforeBodyClose ==
    lastCall.op = "RowsClose" =>
        LET ev   == lastCall.events
            term == CloseQueryRequest(readers[lastCall.id].queryID)
        IN  /\ ev # <<>>
            /\ ev[1] = term
            /\ \A i \in DOMAIN ev :
                   ev[i] = BodyClose => \E j \in 1 .. (i - 1) : ev[j] = term
            /\ lastCall.released <=> (\E i \in DOMAIN ev : ev[i] = BodyClose)

\* A Close of the reader of a push query (its header carried a query id) has
\* sent the terminate request and closed the body.
C13_Witness ==
    /\ lastCall.op = "RowsClose"
    /\ readers[lastCall.id].queryID = "qA"
    /\ lastCall.events = <<CloseQueryRequest("qA"), BodyClose>>

\* C12: for a reader built from a header of N columns, while every row frame
\* the remote has written has N values: no Next has failed; the rows the Next
\* calls have yielded, followed by the frames still waiting in the decoder and
\* in the body, are exactly the row frames written, in order, value for value
\* by column index (so none is lost, none comes twice and the header is no
\* row); a Next that has been called returns as soon as a frame has arrived;
\* and a Next that reported the end of the body came after every row.
C12_NextYieldsRowsInOrder ==
    (qsPc = "created" /\ \A i \in DOMAIN sentRows : Len(sentRows[i]) = columnsCount) =>
        LET pending == decBuf \o respBody
        IN  /\ nextRet # "err"
            /\ \A i \in DOMAIN pending : pending[i].kind = "row"
            /\ yielded \o [i \in DOMAIN pending |-> pending[i].vals] = sentRows
            /\ \A i \in DOMAIN yielded : Len(yielded[i]) = columnsCount
            /\ (nextPc = "waiting" /\ pending # <<>>) => ENABLED NextReturn
            /\ nextRet = "eof" => yielded = sentRows

\* Two different rows of two columns have been yielded, all that was written,
\* the last of them having arrived while Next was suspended on an empty body.
C12_Witness ==
    /\ qsPc = "created"
    /\ columnsCount = 2
    /\ lateFrame
    /\ nextRet = "row"
    /\ Len(yielded) = 2
    /\ yielded[1] # yielded[2]
    /\ yielded = sentRows
    /\ dest = yielded[2]

\* C18: every stream a creating call has returned is in the membership slice of
\* its kind, however the creating calls of several goroutines interleave.
C18_NoRegistrationLost ==
    \A g \in Creators :
        crPc[g] = "returned" =>
            IF crKind[g] = "QueryStream"
            THEN g \in Range(rows)
            ELSE g \in Range(insertsStreamWriters)

\* C21: a QueryStream or InsertsStream call that returns an error, wherever it
\* failed, leaves c.rows and c.insertsStreamWriters as they were: the step of a
\* failed creating call changes neither.
C21_FailedCreationRegistersNothing ==
    [][(lastCall'.op \in {"QueryStream", "InsertsStream"} /\ lastCall'.ret = "err") =>
           (rows' = rows /\ insertsStreamWriters' = insertsStreamWriters)]_vars

\* A creating call has just failed in a session that has a registered reader
\* and a registered writer.
C21_Witness ==
    /\ lastCall.op \in {"QueryStream", "InsertsStream"}
    /\ lastCall.ret = "err"
    /\ rows # <<>>
    /\ insertsStreamWriters # <<>>

====
